---- MODULE Spec2Model ----
(***************************************************************************)
(* Contacts REST API: the user repository (src/repository/users.py) and    *)
(* the Alembic revision 8a85b1da2217 that adds users.confirmed.            *)
(*                                                                         *)
(* The database is the shared state.  Every repository call runs in its    *)
(* own session on behalf of one worker; workers are separate processes,    *)
(* so their calls interleave at the granularity of database statements:    *)
(* a SELECT (the lookup), an INSERT/UPDATE + COMMIT, a refresh SELECT.     *)
(* Statements that touch only locals are merged into the next database     *)
(* statement of the same call.                                             *)
(*                                                                         *)
(* A commit after "entity.attr = value" is the UPDATE of that one column   *)
(* of the entity's row (by primary key); rows are never deleted, so the    *)
(* row of a loaded entity always exists.  snapshot, committed and calls    *)
(* are history variables: the code does not read them.                     *)
(***************************************************************************)
EXTENDS Integers, Sequences, FiniteSets, TLC

\* ------------------------------------------------------------------ bounds
\* Repository calls started in one behaviour.
MaxCalls == 4
\* Rows in table users when a migration starts.
MaxRows == 2

\* --------------------------------------------------------------- constants
\* Python None / SQL NULL as a column or attribute value.
NULL == "NULL"
\* Python None where an entity is expected (row ids start at 1).
NoUser == 0
\* The entity state of "no entity".
NoRow == <<>>

Workers == {"w1", "w2"}
Emails == {"a@x", "A@x"}
Passwords == {"h1"}
Urls == {"u1"}
Tokens == {"t1", "t2"}

revision == "8a85b1da2217"
down_revision == "cc3c001a822b"

\* Columns of users before revision 8a85b1da2217 (the id is the row's index).
BaseColumns == {"email", "password", "avatar", "refresh_token"}
HeadColumns == BaseColumns \cup {"confirmed"}
\* Value of users.confirmed in a row the application inserts.
ConfirmedDefault == {NULL, "False"}

VARIABLES
    version,    \* alembic_version of the database
    columns,    \* columns of table users
    users,      \* table users: sequence of rows, row id = index
    snapshot,   \* history: <<columns, users>> when upgrade() last ran
    committed,  \* history: emails whose create_user INSERT was committed
    calls,      \* history: per worker, the number of calls it has started
    pc,         \* per worker: the statement its current call is at
    args,       \* per worker: the current (or last) call and its arguments
    avatar,     \* per worker: create_user's local avatar
    new_user,   \* per worker: create_user's local new_user (row id)
    user,       \* per worker: confirmed_email's / update_avatar's local user
    result      \* per worker: outcome of its last finished call

vars == <<version, columns, users, snapshot, committed, calls, pc, args, avatar, new_user, user, result>>
db == <<version, columns, users, snapshot, committed>>

Ids == 1..Len(users)

RECURSIVE Sum(_, _)
Sum(f, S) == IF S = {} THEN 0
             ELSE LET x == CHOOSE y \in S : TRUE IN f[x] + Sum(f, S \ {x})
TotalCalls == Sum(calls, Workers)

NoArgs == [op |-> "none", email |-> NULL, password |-> NULL, url |-> NULL,
           token |-> NULL, user |-> NoUser]
Pending == [outcome |-> "pending", user |-> NoUser, entity |-> NoRow]

\* ------------------------------------------------------- database helpers
\* Mutant: the column is added with a server default of false.
add_column_default(cols, rows, name) ==
    <<cols \cup {name},
      [i \in 1..Len(rows) |->
          [c \in cols \cup {name} |-> IF c \in cols THEN rows[i][c] ELSE "False"]]>>

\* op.add_column(table, Column(name, nullable=True)): no server default,
\* so every existing row reads NULL in the new column.
add_column(cols, rows, name) ==
    <<cols \cup {name},
      [i \in 1..Len(rows) |->
          [c \in cols \cup {name} |-> IF c \in cols THEN rows[i][c] ELSE NULL]]>>

\* op.drop_column(table, name)
drop_column(cols, rows, name) ==
    <<cols \ {name},
      [i \in 1..Len(rows) |-> [c \in cols \ {name} |-> rows[i][c]]]>>

\* The unique constraint on users.email, checked by the database on INSERT.
UniqueEmail(rows, email) == \A i \in 1..Len(rows) : rows[i].email # email

\* libgravatar: the address is lower-cased before it is hashed into the URL.
Lower(email) == IF email = "A@x" THEN "a@x" ELSE email
get_image(email) == IF Lower(email) = "a@x" THEN "gravatar/a@x" ELSE "gravatar/other"

\* Row ids whose email equals the argument exactly.
Matching(email) == {i \in Ids : users[i].email = email}

\* Mutant: the filter compares case-insensitively.
get_user_by_email_ci(email) ==
    IF {i \in Ids : Lower(users[i].email) = Lower(email)} = {} THEN {NoUser}
    ELSE {i \in Ids : Lower(users[i].email) = Lower(email)}

\* db.query(User).filter(User.email == email).first(): the possible results.
get_user_by_email(email) ==
    IF Matching(email) = {} THEN {NoUser} ELSE Matching(email)

Finish(p, outcome, id) ==
    /\ pc' = [pc EXCEPT ![p] = "idle"]
    /\ result' = [result EXCEPT ![p] =
                     [outcome |-> outcome, user |-> id,
                      entity |-> IF id = NoUser THEN NoRow ELSE users'[id]]]

Started(p) ==
    /\ pc[p] = "idle"
    /\ TotalCalls < MaxCalls
    /\ calls' = [calls EXCEPT ![p] = @ + 1]

Begin(p, call, at) ==
    /\ Started(p)
    /\ pc' = [pc EXCEPT ![p] = at]
    /\ args' = [args EXCEPT ![p] = call]
    /\ result' = [result EXCEPT ![p] = Pending]

\* ---------------------------------------------------------------- find
find_by_email(p, email) ==
    /\ Started(p)
    /\ args' = [args EXCEPT ![p] = [NoArgs EXCEPT !.op = "get_user_by_email",
                                                  !.email = email]]
    /\ \E u \in get_user_by_email(email) :
          /\ UNCHANGED users
          /\ Finish(p, "return", u)
    /\ avatar' = [avatar EXCEPT ![p] = NULL]
    /\ new_user' = [new_user EXCEPT ![p] = NoUser]
    /\ user' = [user EXCEPT ![p] = NoUser]
    /\ UNCHANGED <<version, columns, snapshot, committed>>

\* ----------------------------------------------------------- create_user
\* Mutant: the failed avatar fetch is not caught.
create_user_avatar_raises(p, email, password, fetched) ==
    /\ Started(p)
    /\ args' = [args EXCEPT ![p] = [NoArgs EXCEPT !.op = "create_user", !.email = email,
                                                  !.password = password]]
    /\ avatar' = [avatar EXCEPT ![p] = IF fetched THEN get_image(email) ELSE NULL]
    /\ new_user' = [new_user EXCEPT ![p] = NoUser]
    /\ user' = [user EXCEPT ![p] = NoUser]
    /\ UNCHANGED db
    /\ IF fetched
       THEN /\ pc' = [pc EXCEPT ![p] = "cu_commit"]
            /\ result' = [result EXCEPT ![p] = Pending]
       ELSE Finish(p, "Exception", NoUser)

\* lines 58-64: the avatar fetch (it may raise; the handler prints and goes
\* on with avatar = None) and the construction of new_user.
create_user_avatar(p, email, password, fetched) ==
    /\ Begin(p, [NoArgs EXCEPT !.op = "create_user", !.email = email,
                               !.password = password], "cu_commit")
    /\ avatar' = [avatar EXCEPT ![p] = IF fetched THEN get_image(email) ELSE NULL]
    /\ new_user' = [new_user EXCEPT ![p] = NoUser]
    /\ user' = [user EXCEPT ![p] = NoUser]
    /\ UNCHANGED db

\* Mutant: the repository looks the email up and rejects a stored one itself.
create_user_commit_checked(p) ==
    /\ pc[p] = "cu_commit"
    /\ IF Matching(args[p].email) = {}
       THEN \E c \in ConfirmedDefault :
              /\ users' = Append(users, [email |-> args[p].email,
                                         password |-> args[p].password,
                                         avatar |-> avatar[p],
                                         refresh_token |-> NULL,
                                         confirmed |-> c])
              /\ new_user' = [new_user EXCEPT ![p] = Len(users) + 1]
              /\ committed' = committed \cup {args[p].email}
              /\ pc' = [pc EXCEPT ![p] = "cu_refresh"]
              /\ UNCHANGED result
       ELSE /\ UNCHANGED <<users, new_user, committed>>
            /\ Finish(p, "AlreadyExists", NoUser)
    /\ UNCHANGED <<version, columns, snapshot, calls, args, avatar, user>>

\* lines 65-66: db.add(new_user); db.commit().  The INSERT is rejected by
\* the unique constraint when the email is stored already.
create_user_commit(p) ==
    /\ pc[p] = "cu_commit"
    /\ IF UniqueEmail(users, args[p].email)
       THEN \E c \in ConfirmedDefault :
              /\ users' = Append(users, [email |-> args[p].email,
                                         password |-> args[p].password,
                                         avatar |-> avatar[p],
                                         refresh_token |-> NULL,
                                         confirmed |-> c])
              /\ new_user' = [new_user EXCEPT ![p] = Len(users) + 1]
              /\ committed' = committed \cup {args[p].email}
              /\ pc' = [pc EXCEPT ![p] = "cu_refresh"]
              /\ UNCHANGED result
       ELSE /\ UNCHANGED <<users, new_user, committed>>
            /\ Finish(p, "IntegrityError", NoUser)
    /\ UNCHANGED <<version, columns, snapshot, calls, args, avatar, user>>

\* lines 67-68: db.refresh(new_user); return new_user
create_user_refresh(p) ==
    /\ pc[p] = "cu_refresh"
    /\ UNCHANGED users
    /\ Finish(p, "return", new_user[p])
    /\ UNCHANGED <<version, columns, snapshot, committed, calls, args, avatar, new_user, user>>

\* ------------------------------------------------------- confirmed_email
\* line 89
confirmed_email_lookup(p, email) ==
    /\ Begin(p, [NoArgs EXCEPT !.op = "confirmed_email", !.email = email], "ce_commit")
    /\ \E u \in get_user_by_email(email) : user' = [user EXCEPT ![p] = u]
    /\ avatar' = [avatar EXCEPT ![p] = NULL]
    /\ new_user' = [new_user EXCEPT ![p] = NoUser]
    /\ UNCHANGED db

\* Mutant: the UPDATE has no WHERE clause.
confirmed_email_commit_all(p) ==
    /\ pc[p] = "ce_commit"
    /\ IF user[p] = NoUser
       THEN /\ UNCHANGED users
            /\ Finish(p, "AttributeError", NoUser)
       ELSE /\ users' = [i \in Ids |-> [users[i] EXCEPT !.confirmed = "True"]]
            /\ Finish(p, "return", NoUser)
    /\ UNCHANGED <<version, columns, snapshot, committed, calls, args, avatar, new_user, user>>

\* Mutant: a missed lookup is guarded and the call returns.
confirmed_email_commit_guarded(p) ==
    /\ pc[p] = "ce_commit"
    /\ IF user[p] = NoUser
       THEN UNCHANGED users
       ELSE users' = [users EXCEPT ![user[p]].confirmed = "True"]
    /\ Finish(p, "return", NoUser)
    /\ UNCHANGED <<version, columns, snapshot, committed, calls, args, avatar, new_user, user>>

\* Mutant: a missed lookup creates the user.
confirmed_email_commit_upsert(p) ==
    /\ pc[p] = "ce_commit"
    /\ IF user[p] = NoUser
       THEN /\ users' = Append(users, [email |-> args[p].email, password |-> NULL,
                                       avatar |-> NULL, refresh_token |-> NULL,
                                       confirmed |-> "True"])
            /\ Finish(p, "return", NoUser)
       ELSE /\ users' = [users EXCEPT ![user[p]].confirmed = "True"]
            /\ Finish(p, "return", NoUser)
    /\ UNCHANGED <<version, columns, snapshot, committed, calls, args, avatar, new_user, user>>

\* lines 90-91: user.confirmed = True; db.commit().  Setting an attribute
\* on None raises AttributeError before anything is written.
confirmed_email_commit(p) ==
    /\ pc[p] = "ce_commit"
    /\ IF user[p] = NoUser
       THEN /\ UNCHANGED users
            /\ Finish(p, "AttributeError", NoUser)
       ELSE /\ users' = [users EXCEPT ![user[p]].confirmed = "True"]
            /\ Finish(p, "return", NoUser)
    /\ UNCHANGED <<version, columns, snapshot, committed, calls, args, avatar, new_user, user>>

\* ---------------------------------------------------------- update_token
\* Mutant: the token is assigned only when one is given.
update_token_if_given(p, id, token) ==
    /\ Started(p)
    /\ args' = [args EXCEPT ![p] = [NoArgs EXCEPT !.op = "update_token",
                                                  !.user = id, !.token = token]]
    /\ users' = IF token = NULL THEN users
                ELSE [users EXCEPT ![id].refresh_token = token]
    /\ Finish(p, "return", NoUser)
    /\ avatar' = [avatar EXCEPT ![p] = NULL]
    /\ new_user' = [new_user EXCEPT ![p] = NoUser]
    /\ user' = [user EXCEPT ![p] = NoUser]
    /\ UNCHANGED <<version, columns, snapshot, committed>>

\* lines 114-115; the entity is one the caller loaded before.
update_token(p, id, token) ==
    /\ Started(p)
    /\ args' = [args EXCEPT ![p] = [NoArgs EXCEPT !.op = "update_token",
                                                  !.user = id, !.token = token]]
    /\ users' = [users EXCEPT ![id].refresh_token = token]
    /\ Finish(p, "return", NoUser)
    /\ avatar' = [avatar EXCEPT ![p] = NULL]
    /\ new_user' = [new_user EXCEPT ![p] = NoUser]
    /\ user' = [user EXCEPT ![p] = NoUser]
    /\ UNCHANGED <<version, columns, snapshot, committed>>

\* --------------------------------------------------------- update_avatar
\* line 141
update_avatar_lookup(p, email, url) ==
    /\ Begin(p, [NoArgs EXCEPT !.op = "update_avatar", !.email = email,
                               !.url = url], "ua_commit")
    /\ \E u \in get_user_by_email(email) : user' = [user EXCEPT ![p] = u]
    /\ avatar' = [avatar EXCEPT ![p] = NULL]
    /\ new_user' = [new_user EXCEPT ![p] = NoUser]
    /\ UNCHANGED db

\* Mutant: the commit is left out, the change never reaches the table.
update_avatar_commit_lost(p) ==
    /\ pc[p] = "ua_commit"
    /\ UNCHANGED users
    /\ IF user[p] = NoUser
       THEN Finish(p, "AttributeError", NoUser)
       ELSE Finish(p, "return", user[p])
    /\ UNCHANGED <<version, columns, snapshot, committed, calls, args, avatar, new_user, user>>

\* lines 142-144: user.avatar = url; db.commit(); return user
update_avatar_commit(p) ==
    /\ pc[p] = "ua_commit"
    /\ IF user[p] = NoUser
       THEN /\ UNCHANGED users
            /\ Finish(p, "AttributeError", NoUser)
       ELSE /\ users' = [users EXCEPT ![user[p]].avatar = args[p].url]
            /\ Finish(p, "return", user[p])
    /\ UNCHANGED <<version, columns, snapshot, committed, calls, args, avatar, new_user, user>>

\* ------------------------------------------------------------- migration
\* lines 21-24
upgrade ==
    /\ version = down_revision
    /\ snapshot' = <<columns, users>>
    /\ columns' = add_column(columns, users, "confirmed")[1]
    /\ users' = add_column(columns, users, "confirmed")[2]
    /\ version' = revision
    /\ UNCHANGED <<committed, calls, pc, args, avatar, new_user, user, result>>

\* lines 27-30
downgrade ==
    /\ version = revision
    /\ columns' = drop_column(columns, users, "confirmed")[1]
    /\ users' = drop_column(columns, users, "confirmed")[2]
    /\ version' = down_revision
    /\ UNCHANGED <<snapshot, committed, calls, pc, args, avatar, new_user, user, result>>

\* ------------------------------------------------------- specifications
IdleWorkers ==
    /\ pc = [p \in Workers |-> "idle"]
    /\ args = [p \in Workers |-> NoArgs]
    /\ avatar = [p \in Workers |-> NULL]
    /\ new_user = [p \in Workers |-> NoUser]
    /\ user = [p \in Workers |-> NoUser]
    /\ result = [p \in Workers |-> Pending]
    /\ committed = {}
    /\ calls = [p \in Workers |-> 0]

NoSnapshot == <<{}, <<>>>>

\* The application on a fresh database at the head revision.
Init ==
    /\ version = revision
    /\ columns = HeadColumns
    /\ users = <<>>
    /\ snapshot = NoSnapshot
    /\ IdleWorkers

Next ==
    \E p \in Workers :
        \/ \E e \in Emails : find_by_email(p, e)
        \/ \E e \in Emails, h \in Passwords, f \in BOOLEAN : create_user_avatar(p, e, h, f)
        \/ create_user_commit(p)
        \/ create_user_refresh(p)
        \/ \E e \in Emails : confirmed_email_lookup(p, e)
        \/ confirmed_email_commit(p)
        \/ \E id \in Ids, t \in Tokens \cup {NULL} : update_token(p, id, t)
        \/ \E e \in Emails, u \in Urls : update_avatar_lookup(p, e, u)
        \/ update_avatar_commit(p)

Spec == Init /\ [][Next]_vars

\* The migration tool on a database holding any table of at most MaxRows
\* users, at either revision.
MigEmails == Emails \cup {"b@x"}
Avatars == {NULL} \cup Urls \cup {get_image(e) : e \in MigEmails}
RowsAt(v) ==
    IF v = revision
    THEN [email : MigEmails, password : Passwords, avatar : Avatars,
          refresh_token : Tokens \cup {NULL}, confirmed : {NULL, "False", "True"}]
    ELSE [email : MigEmails, password : Passwords, avatar : Avatars,
          refresh_token : Tokens \cup {NULL}]
TablesAt(v) ==
    UNION {{t \in [1..n -> RowsAt(v)] :
               \A i, j \in 1..n : t[i].email = t[j].email => i = j} : n \in 0..MaxRows}

InitMig ==
    /\ version \in {down_revision, revision}
    /\ columns = IF version = revision THEN HeadColumns ELSE BaseColumns
    /\ users \in TablesAt(version)
    /\ snapshot = NoSnapshot
    /\ IdleWorkers

NextMig == upgrade \/ downgrade

SpecMig == InitMig /\ [][NextMig]_vars

\* ================================================================ claims
Done(p, op) == args[p].op = op /\ pc[p] = "idle"

\* ---------------------------------------------------------------------
\* C1 (as claimed): an update_avatar call whose lookup found no user
\* returns None without raising.
C1_MissReturnsNone ==
    \A p \in Workers :
        (Done(p, "update_avatar") /\ user[p] = NoUser)
            => (result[p].outcome = "return" /\ result[p].user = NoUser)

\* ---------------------------------------------------------------------
\* C2: once create_user has committed a user with email e, every lookup of
\* e finds a user, and the user found has exactly the email e, whatever
\* calls follow; a finished get_user_by_email that returned a user returned
\* one whose email is the argument.
C2_FindAfterCreate ==
    /\ \A e \in committed :
          \A u \in get_user_by_email(e) : u # NoUser /\ users[u].email = e
    /\ \A p \in Workers :
          (Done(p, "get_user_by_email") /\ result[p].user # NoUser)
              => result[p].entity.email = args[p].email

\* Both emails are stored, differing only in case, and a lookup of the one
\* created last has returned it.
C2_Witness ==
    \E p \in Workers :
        /\ Done(p, "get_user_by_email")
        /\ args[p].email = "a@x"
        /\ committed = {"a@x", "A@x"}
        /\ Len(users) = 2 /\ users[1].email = "A@x"
        /\ result[p].user = 2
        /\ result[p].entity.email = "a@x"

\* ---------------------------------------------------------------------
\* C7: no two stored users have the same email, in every reachable state
\* (two create_user calls with one email may both be in flight); and a
\* create_user that does not return ends in the database's IntegrityError,
\* raised by the INSERT, never in a rejection by the repository itself.
C7_UniqueEmail ==
    /\ \A i, j \in Ids : users[i].email = users[j].email => i = j
    /\ \A p \in Workers :
          (Done(p, "create_user") /\ result[p].outcome # "return")
              => (result[p].outcome = "IntegrityError" /\ new_user[p] = NoUser)

\* Two workers were in create_user with the same email at once: one
\* committed, the other was rejected by the INSERT, one row is stored.
C7_Witness ==
    \E p, q \in Workers :
        /\ p # q
        /\ args[p].op = "create_user" /\ args[q].op = "create_user"
        /\ args[p].email = args[q].email
        /\ TotalCalls = 2
        /\ pc[p] = "cu_refresh"
        /\ Done(q, "create_user") /\ result[q].outcome = "IntegrityError"
        /\ Cardinality(Matching(args[p].email)) = 1


\* ------------------------------------------------------ steps of a call
\* Worker p takes the step of its call that leads from one statement to
\* another.
Step(p, from, to) == pc[p] = from /\ pc'[p] = to

\* Worker p starts a call of op (and, for the one-statement calls, ends it).
Starts(p, op) == calls'[p] = calls[p] + 1 /\ args'[p].op = op

\* The table after the step is the table before it, but for one column of
\* one row.
OnlyChanged(id, col, val) ==
    /\ Len(users') = Len(users)
    /\ \A i \in Ids : \A c \in columns :
          users'[i][c] = IF i = id /\ c = col THEN val ELSE users[i][c]

C4_ConfirmFrame ==
    [][\A p \in Workers :
        /\ (Starts(p, "confirmed_email") /\ Matching(args'[p].email) # {})
              => (user'[p] \in Matching(args'[p].email) /\ users' = users)
        /\ (Step(p, "ce_commit", "idle") /\ user[p] # NoUser)
              => /\ users[user[p]].email = args[p].email
                 /\ OnlyChanged(user[p], "confirmed", "True")
                 /\ users'[user[p]].confirmed = "True"
                 /\ result'[p].outcome = "return"
      ]_vars

\* confirmed_email has returned for a user that has an avatar,
\* with a second, unconfirmed user stored.
C4_Witness ==
    \E p \in Workers : \E i, j \in Ids :
        /\ Done(p, "confirmed_email") /\ result[p].outcome = "return"
        /\ user[p] = i /\ i # j
        /\ users[i].confirmed = "True" /\ users[i].avatar # NULL
        /\ users[j].confirmed # "True"

\* ---------------------------------------------------------------------
\* C5: confirmed_email on an email no user has finds no user, and the call
\* then ends in AttributeError; neither step adds or changes a row.
C5_ConfirmMissRaises ==
    [][\A p \in Workers :
        /\ (Starts(p, "confirmed_email") /\ Matching(args'[p].email) = {})
              => (user'[p] = NoUser /\ pc'[p] = "ce_commit" /\ users' = users)
        /\ (pc[p] = "ce_commit" /\ pc'[p] # "ce_commit" /\ user[p] = NoUser)
              => (result'[p].outcome = "AttributeError" /\ users' = users)
      ]_vars

\* confirmed_email has raised for an email that no stored user has, while
\* a user with the other email is stored and unconfirmed.
C5_Witness ==
    \E p \in Workers :
        /\ Done(p, "confirmed_email") /\ result[p].outcome = "AttributeError"
        /\ Matching(args[p].email) = {}
        /\ Len(users) = 1 /\ users[1].confirmed # "True"

\* ---------------------------------------------------------------------
\* C6: update_token stores exactly the token given, None included (which
\* clears a stored token), changes no other column and no other row, and
\* always returns.
C6_UpdateToken ==
    [][\A p \in Workers :
        Starts(p, "update_token")
          => /\ args'[p].user \in Ids
             /\ OnlyChanged(args'[p].user, "refresh_token", args'[p].token)
             /\ users'[args'[p].user].refresh_token = args'[p].token
             /\ pc'[p] = "idle"
             /\ result'[p].outcome = "return"
      ]_vars

\* One worker stored a token for a user, the other then cleared it with
\* None; a second user keeps its own token.
C6_Witness ==
    \E p, q \in Workers :
        /\ p # q
        /\ Done(q, "update_token") /\ args[q].token \in Tokens
        /\ Done(p, "update_token") /\ args[p].token = NULL
        /\ args[p].user = args[q].user
        /\ users[args[p].user].refresh_token = NULL

\* ---------------------------------------------------------------------
\* C9: update_avatar on the email of a stored user finds that user; its
\* commit sets that user's avatar to url, changes no other column of that
\* row and no other row, and returns that user with avatar = url.
C9_UpdateAvatarFrame ==
    [][\A p \in Workers :
        /\ (Starts(p, "update_avatar") /\ Matching(args'[p].email) # {})
              => (user'[p] \in Matching(args'[p].email) /\ users' = users)
        /\ (Step(p, "ua_commit", "idle") /\ user[p] # NoUser)
              => /\ users[user[p]].email = args[p].email
                 /\ OnlyChanged(user[p], "avatar", args[p].url)
                 /\ result'[p].outcome = "return"
                 /\ result'[p].user = user[p]
                 /\ result'[p].entity = users'[user[p]]
                 /\ result'[p].entity.avatar = args[p].url
      ]_vars

\* update_avatar has returned a confirmed user with the new avatar, while
\* a second user keeps the avatar it was created with.
C9_Witness ==
    \E p \in Workers : \E i, j \in Ids :
        /\ Done(p, "update_avatar") /\ result[p].outcome = "return"
        /\ result[p].user = i /\ i # j
        /\ result[p].entity.avatar = args[p].url
        /\ users[i].avatar = args[p].url
        /\ users[j].avatar = get_image(users[j].email)

\* ---------------------------------------------------------------------
\* C10: no step removes a row or changes a stored email, and the only step
\* that adds a row is create_user's commit, which adds one.
C10_EmailsGrowOnlyByCreate ==
    [][/\ Len(users') >= Len(users)
       /\ \A i \in Ids : users'[i].email = users[i].email
       /\ Len(users') # Len(users)
             => /\ Len(users') = Len(users) + 1
                /\ \E p \in Workers : Step(p, "cu_commit", "cu_refresh")
      ]_vars

\* With one user stored, a confirmed_email and an update_avatar on the
\* other email have both failed and a lookup of it has returned None.
C10_Witness ==
    \E p, q \in Workers :
        /\ Len(users) = 1
        /\ Done(p, "update_avatar") /\ result[p].outcome = "AttributeError"
        /\ Done(q, "confirmed_email") /\ result[q].outcome = "AttributeError"
        /\ Matching(args[p].email) = {} /\ Matching(args[q].email) = {}
        /\ TotalCalls = MaxCalls

\* ---------------------------------------------------------------------
\* C8: after upgrade() the table has the columns it had plus confirmed,
\* every row reads NULL in confirmed and is otherwise as it was; after a
\* downgrade() that follows, columns and rows are again what they were
\* before the upgrade.
C8_UpgradeDowngrade ==
    snapshot # NoSnapshot =>
        /\ version = revision =>
              /\ "confirmed" \notin snapshot[1]
              /\ columns = snapshot[1] \cup {"confirmed"}
              /\ Len(users) = Len(snapshot[2])
              /\ \A i \in Ids :
                    /\ users[i].confirmed = NULL
                    /\ \A c \in snapshot[1] : users[i][c] = snapshot[2][i][c]
        /\ version = down_revision =>
              /\ columns = snapshot[1]
              /\ users = snapshot[2]

\* upgrade() and then downgrade() have run on a table of two users.
C8_Witness ==
    /\ snapshot # NoSnapshot
    /\ version = down_revision
    /\ Len(users) = 2
    /\ users[1].refresh_token # NULL /\ users[2].avatar # NULL

====
